---- MODULE Spec2Model ----
(***************************************************************************)
(* A model of riff's event watcher (internal/tail), of the Spotify client's *)
(* token lifecycle and retry loop (internal/spotify/client), of             *)
(* auth.Token.IsExpired (internal/spotify/auth), of device resolution and   *)
(* the no-active-device fallback of the playback commands (internal/cli),   *)
(* and of the Sonos client's zone-group cache, the Sonos player's GetState, *)
(* GetQueue, AddToQueue and PlayURI, and SSDP discovery with its file cache *)
(* (internal/sonos).                                                        *)
(*                                                                         *)
(* Go pointers that may be nil are modelled as sequences of length 0 or 1: *)
(* Nil is the nil pointer and Some(x) points at x.                          *)
(***************************************************************************)
EXTENDS Integers, Sequences, FiniteSets, TLC

Nil == <<>>
Some(x) == <<x>>

(***************************************************************************)
(* Bounds of the model.                                                    *)
(***************************************************************************)
\* the number of ticker firings a behaviour of the watcher may contain
MaxTicks == 5
\* the last reading of the clock, in seconds
MaxNow == 2
\* how far from the expiry buffer the expiry times given to IsExpired lie
ExpirySpread == 8
\* the most devices a device list holds
MaxDevices == 3
\* the most calls one goroutine makes on the Sonos client
MaxCalls == 2

(***************************************************************************)
(* Program constants.                                                      *)
(***************************************************************************)
\* capacity of Watcher.events: make(chan Event, 16)
EventsCap == 16
\* client.maxRetries
maxRetries == 3
\* the buffer of Token.IsExpired, 60 * time.Second, in seconds
ExpiryBuffer == 60

(***************************************************************************)
(* core.PlaybackState and the values the model draws it from.               *)
(* Durations are whole numbers of time units; the threshold of wasCompleted *)
(* float64(Duration) * 0.95 <= float64(Progress) is, for integer operands   *)
(* below 2^53, the integer comparison 19 * Duration <= 20 * Progress: the   *)
(* product Duration * 0.95 rounds to the integer 19k when Duration = 20k,   *)
(* and is at least 0.05 away from every integer otherwise.                  *)
(***************************************************************************)
Track(uri, duration) == [URI |-> uri, Duration |-> duration]
Device(id) == [ID |-> id]
State(track, device, playing, progress, volume) ==
    [Track |-> track, Device |-> device, IsPlaying |-> playing,
     Progress |-> progress, Volume |-> volume]

\* the state the Spotify adapter returns when nothing is playing
EmptyState == State(Nil, Nil, FALSE, 0, 0)

\* the snapshots a player returns in the runs of the polling loop
LoopStates ==
    { EmptyState,
      State(Some(Track("a", 20)), Some(Device("d1")), TRUE, 5, 30),
      State(Some(Track("b", 20)), Some(Device("d2")), FALSE, 19, 50) }

\* the snapshots a player returns in the runs that exercise one diff
DiffStates ==
    { State(t, d, pl, pr, v) :
        t \in {Nil} \cup { Some(Track(u, du)) : u \in {"a", "b"}, du \in {0, 20} },
        d \in {Nil, Some(Device("d1"))},
        pl \in BOOLEAN,
        pr \in {18, 19, 20},
        v \in {30, 50} }

\* the snapshots a player returns in the runs that exercise the rules for
\* playing, volume and device: every combination of no device and two
\* devices, playing or not, two volumes, and no track and two tracks
RuleStates ==
    { State(t, d, pl, 5, v) :
        t \in {Nil, Some(Track("a", 20)), Some(Track("b", 20))},
        d \in {Nil, Some(Device("d1")), Some(Device("d2"))},
        pl \in BOOLEAN,
        v \in {30, 50} }

(***************************************************************************)
(* State.                                                                  *)
(***************************************************************************)
VARIABLES
    player,        \* the snapshots the watched player may report
    wpc,           \* position of the goroutine running Watcher.Start
    prev,          \* Start's local prev: Nil or Some(PlaybackState)
    events,        \* the buffered contents of Watcher.events
    eventsClosed,  \* the number of times close(w.events) has run
    done,          \* TRUE once Watcher.done is closed
    ctxCancelled,  \* TRUE once the context given to Start is cancelled
    panicked,      \* TRUE once a goroutine has panicked
    startRet,      \* what Start returned: "none", "nil" or "ctx.Err"
    ticks          \* ticker firings consumed so far

VARIABLES
    server,        \* the answers the Spotify API may give to a request
    active,        \* the goroutines that call Client.request
    now,           \* time.Now(), in seconds
    token,         \* Client.token: Nil or Some(Token)
    stored,        \* the token in TokenStorage
    mu,            \* Client.mu: 0, or the goroutine that holds the write lock
    issued,        \* how many tokens the token endpoint has issued
    req,           \* per goroutine: its call of Client.request
    authed         \* the last answer of Client.IsAuthenticated and its time

VARIABLES
    cli,           \* one invocation of a playback command of internal/cli
    lookup,        \* one call of resolveDevice: its inputs and its result
    zone,          \* sonos.Client.groupCache and the calls that use it
    fetch,         \* one call of a method of sonos.Player
    disc           \* sonos.Discovery: its file cache and the calls of Discover

watcherVars == <<player, wpc, prev, events, eventsClosed, done, ctxCancelled,
                 panicked, startRet, ticks>>

clientVars == <<server, active, now, token, stored, mu, issued, req, authed>>

cliVars == <<cli, lookup>>

sonosVars == <<zone, fetch, disc>>

vars == <<watcherVars, clientVars, cliVars, sonosVars>>

(***************************************************************************)
(* internal/core/state.go and internal/tail: the diff.                     *)
(***************************************************************************)
\* (*PlaybackState).HasTrack on a pointer that may be nil
HasTrack(s) == s # Nil /\ s[1].Track # Nil

trackChanged(p, c) ==
    IF p.Track = Nil /\ c.Track = Nil THEN FALSE
    ELSE IF p.Track = Nil \/ c.Track = Nil THEN TRUE
    ELSE p.Track[1].URI # c.Track[1].URI

\* wasCompleted with a strict comparison
wasCompletedStrict(state) ==
    IF state.Track = Nil \/ state.Track[1].Duration = 0 THEN FALSE
    ELSE 20 * state.Progress > 19 * state.Track[1].Duration

wasCompleted(state) ==
    IF state.Track = Nil \/ state.Track[1].Duration = 0 THEN FALSE
    ELSE 20 * state.Progress >= 19 * state.Track[1].Duration

wasSkipped(state) ==
    IF state.Track = Nil \/ state.Track[1].Duration = 0 THEN TRUE
    ELSE 20 * state.Progress < 19 * state.Track[1].Duration

\* deviceChanged that compares only two devices that are both present
deviceChangedBothPresent(p, c) ==
    p.Device # Nil /\ c.Device # Nil /\ p.Device[1].ID # c.Device[1].ID

deviceChanged(p, c) ==
    IF p.Device = Nil /\ c.Device = Nil THEN FALSE
    ELSE IF p.Device = Nil \/ c.Device = Nil THEN TRUE
    ELSE p.Device[1].ID # c.Device[1].ID

\* tail.Event without its wall-clock Timestamp
Event(type, previous, current) ==
    [Type |-> type, Previous |-> previous, Current |-> current]

\* diffStates without its first-poll rule
diffStatesNoFirstPoll(p, c) ==
    IF c = Nil \/ p = Nil THEN <<>>
    ELSE IF trackChanged(p[1], c[1]) THEN <<Event("TrackChange", p, c)>> ELSE <<>>

diffStates(p, c) ==
    IF c = Nil THEN <<>>
    ELSE IF p = Nil
    THEN IF HasTrack(c) THEN <<Event("TrackChange", Nil, c)>> ELSE <<>>
    ELSE
      LET trackEv ==
            IF trackChanged(p[1], c[1])
            THEN <<Event(IF HasTrack(p) /\ wasCompleted(p[1]) THEN "TrackComplete"
                         ELSE IF HasTrack(p) /\ wasSkipped(p[1]) THEN "TrackSkip"
                         ELSE "TrackChange", p, c)>>
            ELSE <<>>
          playEv ==
            IF p[1].IsPlaying /\ ~c[1].IsPlaying THEN <<Event("Pause", p, c)>>
            ELSE IF ~p[1].IsPlaying /\ c[1].IsPlaying THEN <<Event("Resume", p, c)>>
            ELSE <<>>
          volEv ==
            IF p[1].Volume # c[1].Volume THEN <<Event("VolumeChange", p, c)>> ELSE <<>>
          devEv ==
            IF deviceChanged(p[1], c[1]) THEN <<Event("DeviceChange", p, c)>> ELSE <<>>
      IN trackEv \o playEv \o volEv \o devEv

(***************************************************************************)
(* internal/tail: the polling loop.                                        *)
(***************************************************************************)
\* select { case w.events <- e: default: }: the send never waits.  blocked
\* says whether the goroutine is left waiting on the channel.
\* a send that makes room by discarding the oldest pending event
TrySendDropOldest(q, e) ==
    IF Len(q) < EventsCap
    THEN [q |-> Append(q, e), blocked |-> FALSE]
    ELSE [q |-> Append(Tail(q), e), blocked |-> FALSE]

\* a plain channel send, which waits while the buffer is full
TrySendBlocking(q, e) ==
    IF Len(q) < EventsCap
    THEN [q |-> Append(q, e), blocked |-> FALSE]
    ELSE [q |-> q, blocked |-> TRUE]

TrySend(q, e) ==
    IF Len(q) < EventsCap
    THEN [q |-> Append(q, e), blocked |-> FALSE]
    ELSE [q |-> q, blocked |-> FALSE]

\* for _, e := range events { ... }
RECURSIVE SendAll(_, _)
SendAll(q, evs) ==
    IF evs = <<>> THEN [q |-> q, blocked |-> FALSE]
    ELSE LET r == TrySend(q, Head(evs))
         IN IF r.blocked THEN r ELSE SendAll(r.q, Tail(evs))

\* Player.GetState(ctx): both adapters issue their HTTP calls with ctx, so a
\* call made under a cancelled context fails; neither returns a nil state
\* without an error.
\* a GetState that does not look at its context
GetStateIgnoringCtx(cancelled) ==
    {[err |-> TRUE, state |-> Nil]}
    \cup { [err |-> FALSE, state |-> Some(s)] : s \in player }

GetState(cancelled) ==
    {[err |-> TRUE, state |-> Nil]}
    \cup (IF cancelled THEN {}
          ELSE { [err |-> FALSE, state |-> Some(s)] : s \in player })

\* Start up to the loop: the initial GetState only records the snapshot
StartInitial ==
    /\ ~panicked
    /\ wpc = "start"
    /\ \E r \in GetState(ctxCancelled) :
          prev' = IF r.err THEN Nil ELSE r.state
    /\ wpc' = "select"
    /\ UNCHANGED <<player, events, eventsClosed, done, ctxCancelled, panicked,
                   startRet, ticks>>
    /\ UNCHANGED <<clientVars, cliVars, sonosVars>>

\* case <-ctx.Done(): return ctx.Err(), then the deferred close(w.events)
SelectCtxDone ==
    /\ ~panicked
    /\ wpc = "select"
    /\ ctxCancelled
    /\ wpc' = "exited"
    /\ startRet' = "ctx.Err"
    /\ eventsClosed' = eventsClosed + 1
    /\ UNCHANGED <<player, prev, events, done, ctxCancelled, panicked, ticks>>
    /\ UNCHANGED <<clientVars, cliVars, sonosVars>>

\* the Stop branch of the select without the deferred close
SelectDoneNoClose ==
    /\ ~panicked
    /\ wpc = "select"
    /\ done
    /\ wpc' = "exited"
    /\ startRet' = "nil"
    /\ UNCHANGED <<player, prev, events, eventsClosed, ctxCancelled, done,
                   panicked, ticks>>
    /\ UNCHANGED <<clientVars, cliVars, sonosVars>>

\* case <-w.done: return nil, then the deferred close(w.events)
SelectDone ==
    /\ ~panicked
    /\ wpc = "select"
    /\ done
    /\ wpc' = "exited"
    /\ startRet' = "nil"
    /\ eventsClosed' = eventsClosed + 1
    /\ UNCHANGED <<player, prev, events, ctxCancelled, done, panicked, ticks>>
    /\ UNCHANGED <<clientVars, cliVars, sonosVars>>

\* a tick whose failed poll forgets the previous snapshot
TickForgetsOnError ==
    /\ ~panicked
    /\ wpc = "select"
    /\ ticks < MaxTicks
    /\ ticks' = ticks + 1
    /\ \E r \in GetState(ctxCancelled) :
          IF r.err
          THEN prev' = Nil /\ UNCHANGED <<events, wpc>>
          ELSE LET sent == SendAll(events, diffStates(prev, r.state))
               IN /\ events' = sent.q
                  /\ IF sent.blocked
                     THEN wpc' = "blocked" /\ UNCHANGED prev
                     ELSE wpc' = wpc /\ prev' = r.state
    /\ UNCHANGED <<player, eventsClosed, done, ctxCancelled, panicked, startRet>>
    /\ UNCHANGED <<clientVars, cliVars, sonosVars>>

\* case <-ticker.C: poll, diff, send, remember.  The body of the case is one
\* step: the loop looks at ctx and done only in its select.
Tick ==
    /\ ~panicked
    /\ wpc = "select"
    /\ ticks < MaxTicks
    /\ ticks' = ticks + 1
    /\ \E r \in GetState(ctxCancelled) :
          IF r.err
          THEN UNCHANGED <<prev, events, wpc>>
          ELSE LET sent == SendAll(events, diffStates(prev, r.state))
               IN /\ events' = sent.q
                  /\ IF sent.blocked
                     THEN wpc' = "blocked" /\ UNCHANGED prev
                     ELSE wpc' = wpc /\ prev' = r.state
    /\ UNCHANGED <<player, eventsClosed, done, ctxCancelled, panicked, startRet>>
    /\ UNCHANGED <<clientVars, cliVars, sonosVars>>

\* Watcher.Stop: close(w.done); closing a closed channel panics
Stop ==
    /\ ~panicked
    /\ IF done THEN panicked' = TRUE /\ UNCHANGED done
               ELSE done' = TRUE /\ UNCHANGED panicked
    /\ UNCHANGED <<player, wpc, prev, events, eventsClosed, ctxCancelled,
                   startRet, ticks>>
    /\ UNCHANGED <<clientVars, cliVars, sonosVars>>

\* the caller cancels the context it gave to Start
Cancel ==
    /\ ~panicked
    /\ ~ctxCancelled
    /\ ctxCancelled' = TRUE
    /\ UNCHANGED <<player, wpc, prev, events, eventsClosed, done, panicked,
                   startRet, ticks>>
    /\ UNCHANGED <<clientVars, cliVars, sonosVars>>

\* the consumer takes the oldest event from Events()
Receive ==
    /\ ~panicked
    /\ events # <<>>
    /\ events' = Tail(events)
    /\ UNCHANGED <<player, wpc, prev, eventsClosed, done, ctxCancelled,
                   panicked, startRet, ticks>>
    /\ UNCHANGED <<clientVars, cliVars, sonosVars>>

(***************************************************************************)
(* internal/spotify/auth and internal/spotify/client.                      *)
(***************************************************************************)
Callers == {1, 2}

\* auth.Token: the fields the client reads
Token(access, refresh, expiresAt) ==
    [AccessToken |-> access, RefreshToken |-> refresh, ExpiresAt |-> expiresAt]

\* expires_in of the token endpoint's answers, in seconds
ExpiresInValues == {3600}

\* IsExpired with <= where the code compares strictly
IsExpiredInclusive(t, at) == at + ExpiryBuffer >= t.ExpiresAt

\* IsExpired without its buffer
IsExpiredNoBuffer(t, at) == at > t.ExpiresAt

\* Token.IsExpired at time at: time.Now().Add(60 * time.Second).After(t.ExpiresAt)
IsExpired(t, at) == at + ExpiryBuffer > t.ExpiresAt

\* the errors of the client
NoError == [kind |-> "nil"]
ErrNoToken == [kind |-> "no token to refresh"]
ErrRefresh == [kind |-> "failed to refresh token"]
ErrSave == [kind |-> "failed to write token file"]
ErrNotAuthenticated == [kind |-> "not authenticated"]
ErrCtx == [kind |-> "context canceled"]
ErrParse == [kind |-> "failed to parse response"]
ErrRequestFailed == [kind |-> "request failed"]
ErrReadFailed == [kind |-> "failed to read response"]
\* *APIError, decoded from a body that carries an error message; the body's
\* status is the response's status
APIError(status, message) == [kind |-> "APIError", Status |-> status, Message |-> message]
\* fmt.Errorf("API error: status %d, body: %s", ...)
ErrStatus(status) == [kind |-> "API error", Status |-> status]
\* fmt.Errorf("request failed after %d retries: %w", maxRetries, lastErr)
ErrRetries(lastErr) == [kind |-> "request failed after retries", wraps |-> lastErr]

\* what one call of httpClient.Do and the read of the body can give
Response(code, message, parses) ==
    [kind |-> "response", code |-> code, message |-> message, parses |-> parses]
TransportFailure == [kind |-> "transport", code |-> 0, message |-> "", parses |-> FALSE]
ReadFailure == [kind |-> "read", code |-> 0, message |-> "", parses |-> FALSE]

AllAnswers ==
    { Response(200, "", TRUE), Response(200, "", FALSE), Response(204, "", TRUE),
      Response(503, "unavailable", TRUE), Response(503, "", FALSE),
      Response(404, "no active device", TRUE), Response(403, "", FALSE),
      Response(429, "rate limited", TRUE),
      TransportFailure, ReadFailure }

FewAnswers == { Response(200, "", TRUE), Response(503, "unavailable", TRUE) }

\* the error request() makes of a response with status >= 400
StatusError(r) ==
    IF r.parses /\ r.message # "" THEN APIError(r.code, r.message) ELSE ErrStatus(r.code)

IdleRequest ==
    [pc |-> "idle", cancelled |-> FALSE, tok |-> -1, attempt |-> 0, sent |-> 0,
     lastErr |-> Nil, result |-> Nil,
     \* history: the time and the cached token when the call began, whether
     \* every answer so far was a 503, the last answer, whether this call ran
     \* a refresh exchange, and how the refresh it waited for ended
     callTime |-> 0, callTok |-> Nil, only503 |-> TRUE, lastAnswer |-> Nil,
     exchanged |-> FALSE, waitedFor |-> "none",
     \* where the call was when its context was cancelled, and the attempts
     \* it had sent by then
     cancelledIn |-> "none", sentBefore |-> 0]

Return(c, err) == [req EXCEPT ![c].pc = "done", ![c].result = Some(err)]

\* a goroutine enters Client.request, which calls getToken and RefreshToken
Call(c) ==
    /\ req[c].pc = "idle"
    /\ req' = [req EXCEPT ![c].pc = "lock", ![c].callTime = now, ![c].callTok = token]
    /\ UNCHANGED <<server, active, now, token, stored, mu, issued, authed>>
    /\ UNCHANGED <<watcherVars, cliVars, sonosVars>>

\* RefreshToken without the expiry check under the lock
AcquireNoRecheck(c) ==
    /\ req[c].pc = "lock"
    /\ mu = 0
    /\ IF token = Nil
       THEN req' = Return(c, ErrNoToken) /\ UNCHANGED mu
       ELSE req' = [req EXCEPT ![c].pc = "exchange", ![c].exchanged = TRUE] /\ mu' = c
    /\ UNCHANGED <<server, active, now, token, stored, issued, authed>>
    /\ UNCHANGED <<watcherVars, cliVars, sonosVars>>

\* RefreshToken from c.mu.Lock() to the exchange: the early returns release
\* the lock, the exchange runs with the lock held
Acquire(c) ==
    /\ req[c].pc = "lock"
    /\ mu = 0
    /\ IF token = Nil
       THEN req' = Return(c, ErrNoToken) /\ UNCHANGED mu
       ELSE IF ~IsExpired(token[1], now)
       THEN req' = [req EXCEPT ![c].pc = "read"] /\ UNCHANGED mu
       ELSE req' = [req EXCEPT ![c].pc = "exchange", ![c].exchanged = TRUE] /\ mu' = c
    /\ UNCHANGED <<server, active, now, token, stored, issued, authed>>
    /\ UNCHANGED <<watcherVars, cliVars, sonosVars>>

\* the requests that wait for the lock learn how the running refresh ended
Waiting(r, c, how) ==
    [d \in Callers |-> IF d # c /\ r[d].pc = "lock"
                       THEN [r[d] EXCEPT !.waitedFor = how] ELSE r[d]]

\* RefreshToken from the answer of auth.RefreshAccessToken to its return
ExchangeReturn(c) ==
    /\ req[c].pc = "exchange"
    /\ mu = c
    /\ mu' = 0
    /\ \/ /\ req' = Waiting(Return(c, ErrRefresh), c, "failed")
          /\ UNCHANGED <<token, stored, issued>>
       \/ /\ ~req[c].cancelled
          /\ \E life \in ExpiresInValues, rt \in {"", "r2"}, saved \in BOOLEAN :
               LET new == Token(issued + 1,
                                IF rt = "" THEN token[1].RefreshToken ELSE rt,
                                now + life)
               IN /\ token' = Some(new)
                  /\ issued' = issued + 1
                  /\ IF saved
                     THEN /\ stored' = Some(new)
                          /\ req' = Waiting([req EXCEPT ![c].pc = "read"], c, "installed")
                     ELSE /\ stored' = stored
                          /\ req' = Waiting(Return(c, ErrSave), c, "installed")
    /\ UNCHANGED <<server, active, now, authed>>
    /\ UNCHANGED <<watcherVars, cliVars, sonosVars>>

\* getToken after RefreshToken returned nil: read the token under RLock
ReadToken(c) ==
    /\ req[c].pc = "read"
    /\ mu = 0
    /\ IF token = Nil
       THEN req' = Return(c, ErrNotAuthenticated)
       ELSE req' = [req EXCEPT ![c].pc = "attempt", ![c].tok = token[1].AccessToken,
                               ![c].attempt = 0, ![c].lastErr = Nil]
    /\ UNCHANGED <<server, active, now, token, stored, mu, issued, authed>>
    /\ UNCHANGED <<watcherVars, cliVars, sonosVars>>

\* the loop's continue with a bound that stops one attempt early
ContinueOneShort(c, r, err) ==
    [req EXCEPT ![c].sent = @ + 1,
                ![c].only503 = @ /\ r.code = 503,
                ![c].lastAnswer = Some(r),
                ![c].lastErr = Some(err),
                ![c].attempt = @ + 1,
                ![c].pc = IF req[c].attempt + 1 >= maxRetries THEN "done" ELSE "wait",
                ![c].result = IF req[c].attempt + 1 >= maxRetries
                              THEN Some(ErrRetries(err)) ELSE Nil]

\* the loop's continue: attempt++ and either the next wait or the final error
Continue(c, r, err) ==
    [req EXCEPT ![c].sent = @ + 1,
                ![c].only503 = @ /\ r.code = 503,
                ![c].lastAnswer = Some(r),
                ![c].lastErr = Some(err),
                ![c].attempt = @ + 1,
                ![c].pc = IF req[c].attempt + 1 > maxRetries THEN "done" ELSE "wait",
                ![c].result = IF req[c].attempt + 1 > maxRetries
                              THEN Some(ErrRetries(err)) ELSE Nil]

\* a return out of the loop
Finish(c, r, err) ==
    [req EXCEPT ![c].sent = @ + 1,
                ![c].only503 = @ /\ r.code = 503,
                ![c].lastAnswer = Some(r),
                ![c].pc = "done",
                ![c].result = Some(err)]

\* one pass of the retry loop after its wait: send the request with the
\* token read at the start of the call and classify the answer
Attempt(c) ==
    /\ req[c].pc = "attempt"
    /\ \E r \in (IF req[c].cancelled THEN {TransportFailure} ELSE server) :
         req' = IF r.kind = "transport" THEN Continue(c, r, ErrRequestFailed)
                ELSE IF r.kind = "read" THEN Continue(c, r, ErrReadFailed)
                ELSE IF r.code = 204 THEN Finish(c, r, NoError)
                ELSE IF r.code >= 500 THEN Continue(c, r, StatusError(r))
                ELSE IF r.code >= 400 THEN Finish(c, r, StatusError(r))
                ELSE IF ~r.parses THEN Finish(c, r, ErrParse)
                ELSE Finish(c, r, NoError)
    /\ UNCHANGED <<server, active, now, token, stored, mu, issued, authed>>
    /\ UNCHANGED <<watcherVars, cliVars, sonosVars>>

\* a select that takes the timer's case although the context is done
WaitElapsedAnyway(c) ==
    /\ req[c].pc = "wait"
    /\ req' = [req EXCEPT ![c].pc = "attempt"]
    /\ UNCHANGED <<server, active, now, token, stored, mu, issued, authed>>
    /\ UNCHANGED <<watcherVars, cliVars, sonosVars>>

\* case <-time.After(wait): the select is parked on both channels and the
\* first of them to become ready decides the case, so the timer's case is
\* taken only while the context is not done
WaitElapsed(c) ==
    /\ req[c].pc = "wait"
    /\ ~req[c].cancelled
    /\ req' = [req EXCEPT ![c].pc = "attempt"]
    /\ UNCHANGED <<server, active, now, token, stored, mu, issued, authed>>
    /\ UNCHANGED <<watcherVars, cliVars, sonosVars>>

\* case <-ctx.Done(): return ctx.Err()
WaitCancelled(c) ==
    /\ req[c].pc = "wait"
    /\ req[c].cancelled
    /\ req' = Return(c, ErrCtx)
    /\ UNCHANGED <<server, active, now, token, stored, mu, issued, authed>>
    /\ UNCHANGED <<watcherVars, cliVars, sonosVars>>

\* the caller cancels the context of its request
CancelRequest(c) ==
    /\ req[c].pc \notin {"idle", "done"}
    /\ ~req[c].cancelled
    /\ req' = [req EXCEPT ![c].cancelled = TRUE,
                          ![c].cancelledIn = req[c].pc,
                          ![c].sentBefore = req[c].sent]
    /\ UNCHANGED <<server, active, now, token, stored, mu, issued, authed>>
    /\ UNCHANGED <<watcherVars, cliVars, sonosVars>>

\* time passes
AdvanceClock ==
    /\ now < MaxNow
    /\ now' = now + 1
    /\ UNCHANGED <<server, active, token, stored, mu, issued, req, authed>>
    /\ UNCHANGED <<watcherVars, cliVars, sonosVars>>

\* Client.IsAuthenticated: c.token != nil && !c.token.IsExpired(), under RLock
IsAuthenticated ==
    /\ mu = 0
    /\ authed' = Some([at |-> now,
                       value |-> token # Nil /\ ~IsExpired(token[1], now)])
    /\ UNCHANGED <<server, active, now, token, stored, mu, issued, req>>
    /\ UNCHANGED <<watcherVars, cliVars, sonosVars>>

ClientInit(answers, who, tokens) ==
    /\ server = answers
    /\ active = who
    /\ now = 0
    /\ token \in tokens
    /\ stored = token
    /\ mu = 0
    /\ issued = 0
    /\ req = [c \in Callers |-> IdleRequest]
    /\ authed = Nil

RequestNext ==
    \/ \E c \in active : Call(c)
    \/ \E c \in active : Acquire(c)
    \/ \E c \in active : ExchangeReturn(c)
    \/ \E c \in active : ReadToken(c)
    \/ \E c \in active : Attempt(c)
    \/ \E c \in active : WaitElapsed(c)
    \/ \E c \in active : WaitCancelled(c)
    \/ \E c \in active : CancelRequest(c)
    \/ AdvanceClock

\* the tokens a client starts with: none, one that is already in the expiry
\* buffer, one that enters it as the clock advances, and one that stays valid
StartTokens ==
    {Nil} \cup { Some(Token(0, "r1", e)) :
                   e \in {ExpiryBuffer - 1, ExpiryBuffer, ExpiryBuffer + 1,
                          ExpiryBuffer + MaxNow + 1} }

(***************************************************************************)
(* internal/cli: device resolution.                                        *)
(* A Go string is the sequence of its characters.                          *)
(***************************************************************************)
\* strings.ToLower, over the letters the names of the model are made of
LowerChar(ch) == CASE ch = "K" -> "k" [] ch = "S" -> "s" [] OTHER -> ch
ToLower(s) == IF s = <<>> THEN <<>> ELSE [i \in 1..Len(s) |-> LowerChar(s[i])]

\* strings.Contains
Contains(s, sub) ==
    \E i \in 0..(Len(s) - Len(sub)) : SubSeq(s, i + 1, i + Len(sub)) = sub

\* client.Device and sonos.Device: the fields resolution reads
ClientDevice(id, name) == [ID |-> id, Name |-> name]
SonosDevice(uuid, name) == [UUID |-> uuid, Name |-> name]

\* cli.resolvedDevice
resolvedDevice(platform, spotifyID, sonosDevice, name) ==
    [Platform |-> platform, SpotifyID |-> spotifyID, SonosDevice |-> sonosDevice,
     Name |-> name]

ErrGetDevices == [kind |-> "failed to get devices"]
ErrDeviceNotFound == [kind |-> "device not found"]

\* the index at which a for-range loop returns when hits are the indices
\* whose element satisfies the loop's test: the first hit, 0 when the loop
\* falls through
FirstIndex(hits) ==
    IF hits = {} THEN 0 ELSE CHOOSE i \in hits : \A j \in hits : i <= j

\* the members of all groups, in the order the nested loops visit them
RECURSIVE Members(_)
Members(groups) ==
    IF groups = <<>> THEN <<>> ELSE Head(groups).Members \o Members(Tail(groups))

\* findSonosDevice: lan.discovered is what Discover returned (Nil: an error),
\* lan.groups what ListGroups returned (Nil: an error)
findSonosDevice(lan, nameOrID) ==
    LET nameLower == ToLower(nameOrID)
        list == IF lan.groups = Nil THEN lan.discovered[1] ELSE Members(lan.groups[1])
        hit == FirstIndex({ i \in 1..Len(list) :
                              \/ list[i].UUID = nameOrID
                              \/ ToLower(list[i].Name) = nameLower
                              \/ Contains(ToLower(list[i].Name), nameLower) })
    IN  IF lan.discovered = Nil \/ lan.discovered = Some(<<>>) THEN Nil
        ELSE IF hit # 0 THEN Some(list[hit])
        ELSE Nil

\* resolveDevice with its three loops over the REST devices merged into one
resolveDeviceOnePass(rest, lan, nameOrID) ==
    LET nameLower == ToLower(nameOrID)
        devices == rest[1]
        hit == FirstIndex({ i \in 1..Len(devices) :
                              \/ devices[i].ID = nameOrID
                              \/ ToLower(devices[i].Name) = nameLower
                              \/ Contains(ToLower(devices[i].Name), nameLower) })
        sonosDevice == findSonosDevice(lan, nameOrID)
    IN  IF rest = Nil THEN [dev |-> Nil, err |-> ErrGetDevices]
        ELSE IF hit # 0
        THEN [dev |-> Some(resolvedDevice("spotify", devices[hit].ID, Nil, devices[hit].Name)),
              err |-> NoError]
        ELSE IF sonosDevice # Nil
        THEN [dev |-> Some(resolvedDevice("sonos", <<>>, sonosDevice, sonosDevice[1].Name)),
              err |-> NoError]
        ELSE [dev |-> Nil, err |-> ErrDeviceNotFound]

\* resolveDevice: rest is what GetDevices returned (Nil: an error)
resolveDevice(rest, lan, nameOrID) ==
    LET nameLower == ToLower(nameOrID)
        devices == rest[1]
        byID == FirstIndex({ i \in 1..Len(devices) : devices[i].ID = nameOrID })
        byName == FirstIndex({ i \in 1..Len(devices) : ToLower(devices[i].Name) = nameLower })
        bySub == FirstIndex({ i \in 1..Len(devices) : Contains(ToLower(devices[i].Name), nameLower) })
        hit == IF byID # 0 THEN byID ELSE IF byName # 0 THEN byName ELSE bySub
        sonosDevice == findSonosDevice(lan, nameOrID)
    IN  IF rest = Nil THEN [dev |-> Nil, err |-> ErrGetDevices]
        ELSE IF hit # 0
        THEN [dev |-> Some(resolvedDevice("spotify", devices[hit].ID, Nil, devices[hit].Name)),
              err |-> NoError]
        ELSE IF sonosDevice # Nil
        THEN [dev |-> Some(resolvedDevice("sonos", <<>>, sonosDevice, sonosDevice[1].Name)),
              err |-> NoError]
        ELSE [dev |-> Nil, err |-> ErrDeviceNotFound]

\* the names and identifiers the model draws devices and queries from:
\* "Ki" and "ki" differ in case only, "KiS" contains both, and "ki" is an
\* identifier as well as a name
IDs == { <<"1">>, <<"2">>, <<"k", "i">> }
Names == { <<"K", "i">>, <<"K", "i", "S">>, <<"a">> }
Queries == { <<"k", "i">>, <<"K", "i">>, <<"1">>, <<"z">> }

\* the sequences of at most n elements of S
SeqUpTo(S, n) == UNION { [1..k -> S] : k \in 0..n }

\* the ways one list of members is spread over two zone groups
Splits(l) ==
    { << [Members |-> SubSeq(l, 1, k)], [Members |-> SubSeq(l, k + 1, Len(l))] >> :
        k \in 0..Len(l) }

\* a LAN on which discovery finds nothing
NoLan == [discovered |-> Some(<<>>), groups |-> Nil]

IdleLookup ==
    [pc |-> "idle", rest |-> Nil, lan |-> NoLan, nameOrID |-> <<>>, result |-> Nil]

\* the inputs of one call: a REST list searched on its own, or a LAN searched
\* behind a REST list of at most one device
LookupInit ==
    \E q \in Queries :
        \/ \E rest \in {Nil} \cup { Some(l) : l \in SeqUpTo({ ClientDevice(i, n) : i \in IDs, n \in Names }, MaxDevices) } :
              lookup = [IdleLookup EXCEPT !.pc = "called", !.rest = rest, !.nameOrID = q]
        \/ \E rest \in { Some(<<>>), Some(<< ClientDevice(<<"2">>, <<"a">>) >>) },
              l \in SeqUpTo({ SonosDevice(i, n) : i \in IDs \ {<<"2">>}, n \in Names }, MaxDevices) :
              \E lan \in { [discovered |-> Nil, groups |-> Nil],
                           [discovered |-> Some(l), groups |-> Nil] }
                         \cup { [discovered |-> Some(l), groups |-> Some(g)] : g \in Splits(l) } :
                 lookup = [IdleLookup EXCEPT !.pc = "called", !.rest = rest, !.lan = lan,
                                             !.nameOrID = q]

\* resolveDevice runs and returns
Resolve ==
    /\ lookup.pc = "called"
    /\ lookup' = [lookup EXCEPT !.pc = "returned",
                    !.result = Some(resolveDevice(lookup.rest, lookup.lan, lookup.nameOrID))]
    /\ UNCHANGED <<watcherVars, clientVars, cli, sonosVars>>

(***************************************************************************)
(* internal/cli: the playback commands and the no-active-device fallback.  *)
(***************************************************************************)
\* fmt.Errorf(msg + ": %w", err)
Wrap(msg, err) == [kind |-> "wrapped", msg |-> msg, wraps |-> err]
ErrSonosDefault == [kind |-> "default device is a Sonos device"]
ErrSonosControl == [kind |-> "control commands for Sonos devices not yet supported"]
ErrNoDevices == [kind |-> "no devices found"]
ErrSelectionCancelled == [kind |-> "selection cancelled"]

\* client.IsNoActiveDeviceError and client.IsAlreadyPlayingError
IsNoActiveDeviceError(err) == err.kind = "APIError" /\ err.Status = 404
IsAlreadyPlayingError(err) == err.kind = "APIError" /\ err.Status = 403

\* what Client.request returns to a caller that passes no result, when r is
\* the answer to its last attempt
requestResult(r) ==
    IF r.kind = "transport" THEN ErrRetries(ErrRequestFailed)
    ELSE IF r.kind = "read" THEN ErrRetries(ErrReadFailed)
    ELSE IF r.code = 204 THEN NoError
    ELSE IF r.code >= 500 THEN ErrRetries(StatusError(r))
    ELSE IF r.code >= 400 THEN StatusError(r)
    ELSE NoError

\* the answers of the player endpoints
PlayAnswers ==
    { Response(204, "", TRUE), Response(404, "no active device", TRUE),
      Response(404, "", FALSE), Response(403, "restriction violated", TRUE),
      Response(503, "unavailable", TRUE) }

\* riff play (resume), riff play --uri, riff play <query>, which run
\* playWithFallback or playSearchResultWithFallback
PlayCommands == {"play", "play --uri", "play query"}
\* riff pause, resume, next, prev, restart and volume
ControlCommands == {"pause", "resume", "next", "prev", "restart", "volume"}

\* the playType or itemType a play command passes to its fallback function
playType(cmd) ==
    CASE cmd = "play" -> "resume" [] cmd = "play --uri" -> "uri" [] OTHER -> "track"

\* the prefix a command puts before the error of its first call
FailedMessage(cmd) ==
    CASE cmd = "play" -> "failed to resume playback"
      [] cmd = "play --uri" -> "failed to play"
      [] cmd = "play query" -> "failed to play track"
      [] cmd = "pause" -> "failed to pause"
      [] cmd = "resume" -> "failed to resume"
      [] cmd = "next" -> "failed to skip"
      [] cmd = "prev" -> "failed to go back"
      [] cmd = "restart" -> "failed to restart"
      [] OTHER -> "failed to set volume"

\* the prefix a play command puts before the error of its second call
RetryMessage(cmd) ==
    IF cmd = "play query" THEN "failed to play track on default device"
    ELSE "failed to play on default device"

\* the REST devices and the LAN of the runs of the commands
CliDevices == << ClientDevice(<<"1">>, <<"K", "i">>), ClientDevice(<<"2">>, <<"K", "i", "S">>) >>
CliRests == { Nil, Some(<<>>), Some(CliDevices) }
CliLans == { NoLan, [discovered |-> Some(<< SonosDevice(<<"9">>, <<"a">>) >>), groups |-> Nil] }
\* --to or --device, and cfg.Defaults.Device: empty, a REST device, a name
\* that only the LAN may know
DeviceFlags == { <<>>, <<"K", "i">>, <<"a">> }
DefaultDevices == { <<>>, <<"K", "i", "S">>, <<"a">> }

IdleCli ==
    [pc |-> "idle", cmd |-> "play", flag |-> <<>>, defaultDevice |-> <<>>,
     rest |-> Nil, lan |-> NoLan,
     \* Player.deviceID, and the fallback's local deviceID
     deviceID |-> <<>>, target |-> <<>>,
     \* history: the calls of the command's player method and their answers,
     \* the calls of TransferPlayback, their device and whether one succeeded,
     \* whether the fallback ran, the picker's choice, and what was returned
     issues |-> 0, first |-> Nil, second |-> Nil,
     transfers |-> 0, transferredTo |-> Nil, transferred |-> FALSE,
     fallback |-> FALSE, picked |-> Nil, ret |-> Nil]

CliReturn(err) == [cli EXCEPT !.pc = "done", !.ret = Some(err)]

\* runPlay and getSpotifyPlayer up to the first call: resolve --to / --device
RunCommand ==
    /\ cli.pc = "start"
    /\ LET r == resolveDevice(cli.rest, cli.lan, cli.flag)
       IN  IF cli.flag = <<>>
           THEN cli' = [cli EXCEPT !.pc = "issue"]
           ELSE IF r.dev = Nil
           THEN cli' = CliReturn(r.err)
           ELSE IF r.dev[1].Platform = "sonos"
           THEN IF cli.cmd \in PlayCommands
                THEN cli' = [cli EXCEPT !.pc = "runPlaySonos"]
                ELSE cli' = CliReturn(ErrSonosControl)
           ELSE cli' = [cli EXCEPT !.pc = "issue", !.deviceID = r.dev[1].SpotifyID]
    /\ UNCHANGED <<watcherVars, clientVars, lookup, sonosVars>>

\* the first call of the command's player method and what the command makes
\* of its result: the head of playWithFallback and
\* playSearchResultWithFallback, and the whole of runPause, runResume,
\* runNext, runPrev, runRestart and runVolume's call of Volume
IssueFirst ==
    /\ cli.pc = "issue"
    /\ \E r \in PlayAnswers :
         LET err == requestResult(r)
             c == [cli EXCEPT !.issues = @ + 1, !.first = Some(r)]
         IN  IF err = NoError
             THEN cli' = [c EXCEPT !.pc = "done", !.ret = Some(NoError)]
             ELSE IF cli.cmd \in ControlCommands
             THEN cli' = [c EXCEPT !.pc = "done",
                                   !.ret = Some(Wrap(FailedMessage(cli.cmd), err))]
             ELSE IF playType(cli.cmd) = "resume" /\ IsAlreadyPlayingError(err)
             THEN cli' = [c EXCEPT !.pc = "done", !.ret = Some(NoError)]
             ELSE IF ~IsNoActiveDeviceError(err)
             THEN cli' = [c EXCEPT !.pc = "done",
                                   !.ret = Some(Wrap(FailedMessage(cli.cmd), err))]
             ELSE cli' = [c EXCEPT !.pc = "target", !.fallback = TRUE]
    /\ UNCHANGED <<watcherVars, clientVars, lookup, sonosVars>>

\* the fallback determines deviceID: selectDevice when no default is
\* configured, resolveDevice of the default otherwise
ChooseTarget ==
    /\ cli.pc = "target"
    /\ IF cli.defaultDevice = <<>>
       THEN \/ cli' = CliReturn(ErrSelectionCancelled)
            \/ /\ cli.rest = Nil
               /\ cli' = CliReturn(ErrGetDevices)
            \/ /\ cli.rest = Some(<<>>)
               /\ cli' = CliReturn(ErrNoDevices)
            \/ /\ cli.rest # Nil
               /\ \E i \in 1..Len(cli.rest[1]) :
                    cli' = [cli EXCEPT !.pc = "transfer", !.target = cli.rest[1][i].ID,
                                       !.picked = Some(cli.rest[1][i].ID)]
       ELSE LET r == resolveDevice(cli.rest, cli.lan, cli.defaultDevice)
            IN  IF r.dev = Nil
                THEN cli' = CliReturn(Wrap("failed to resolve default device", r.err))
                ELSE IF r.dev[1].Platform # "spotify"
                THEN cli' = CliReturn(ErrSonosDefault)
                ELSE cli' = [cli EXCEPT !.pc = "transfer", !.target = r.dev[1].SpotifyID]
    /\ UNCHANGED <<watcherVars, clientVars, lookup, sonosVars>>

\* c.TransferPlayback(ctx, deviceID, false) and p.SetDevice(deviceID)
Transfer ==
    /\ cli.pc = "transfer"
    /\ \E r \in PlayAnswers :
         LET err == requestResult(r)
             c == [cli EXCEPT !.transfers = @ + 1, !.transferredTo = Some(cli.target)]
         IN  IF err # NoError
             THEN cli' = [c EXCEPT !.pc = "done",
                            !.ret = Some(Wrap("failed to transfer to default device", err))]
             ELSE cli' = [c EXCEPT !.pc = "retry", !.transferred = TRUE,
                                   !.deviceID = cli.target]
    /\ UNCHANGED <<watcherVars, clientVars, lookup, sonosVars>>

\* a retry that runs the fallback again when it too finds no active device
ReissueWithFallback ==
    /\ cli.pc = "retry"
    /\ \E r \in PlayAnswers :
         LET err == requestResult(r)
             c == [cli EXCEPT !.issues = @ + 1, !.second = Some(r)]
         IN  IF err = NoError
             THEN cli' = [c EXCEPT !.pc = "done", !.ret = Some(NoError)]
             ELSE IF IsNoActiveDeviceError(err)
             THEN cli' = [c EXCEPT !.pc = "target"]
             ELSE cli' = [c EXCEPT !.pc = "done",
                                   !.ret = Some(Wrap(RetryMessage(cli.cmd), err))]
    /\ UNCHANGED <<watcherVars, clientVars, lookup, sonosVars>>

\* a retry that reports the error of the first call instead of its own
ReissueReportsFirst ==
    /\ cli.pc = "retry"
    /\ \E r \in PlayAnswers :
         LET err == requestResult(r)
             c == [cli EXCEPT !.issues = @ + 1, !.second = Some(r)]
         IN  IF err = NoError
             THEN cli' = [c EXCEPT !.pc = "done", !.ret = Some(NoError)]
             ELSE cli' = [c EXCEPT !.pc = "done",
                            !.ret = Some(Wrap(RetryMessage(cli.cmd),
                                              requestResult(cli.first[1])))]
    /\ UNCHANGED <<watcherVars, clientVars, lookup, sonosVars>>

\* the retry of playFunc after the transfer
Reissue ==
    /\ cli.pc = "retry"
    /\ \E r \in PlayAnswers :
         LET err == requestResult(r)
             c == [cli EXCEPT !.issues = @ + 1, !.second = Some(r)]
         IN  IF err = NoError
             THEN cli' = [c EXCEPT !.pc = "done", !.ret = Some(NoError)]
             ELSE cli' = [c EXCEPT !.pc = "done",
                                   !.ret = Some(Wrap(RetryMessage(cli.cmd), err))]
    /\ UNCHANGED <<watcherVars, clientVars, lookup, sonosVars>>

CliInit ==
    \E cmd \in PlayCommands \cup ControlCommands, flag \in DeviceFlags,
       def \in DefaultDevices, rest \in CliRests, lan \in CliLans :
        cli = [IdleCli EXCEPT !.pc = "start", !.cmd = cmd, !.flag = flag,
                              !.defaultDevice = def, !.rest = rest,
                              !.lan = lan]

CliNext ==
    \/ RunCommand
    \/ IssueFirst
    \/ ChooseTarget
    \/ Transfer
    \/ Reissue

(***************************************************************************)
(* internal/sonos: the zone-group cache of Client.                          *)
(* The topology of the speakers is a version number that every successful  *)
(* grouping command raises; a group listing is the version it was read at. *)
(***************************************************************************)
Goroutines == {1, 2}

ErrSoap == [kind |-> "soap call failed"]

IdleCall == [pc |-> "idle", op |-> "none", fetched |-> 0, need |-> 0, answer |-> Nil, calls |-> 0]

IdleZone ==
    [topology |-> 0, cache |-> Nil,
     \* history: the topology made by the last command that returned nil
     committed |-> 0,
     g |-> [p \in Goroutines |-> IdleCall]]

\* the read-locked head of ListGroups, called by a goroutine that is in no
\* other call of the client: a cache that is set and younger than
\* zoneGroupCacheTTL answers the call
ListGroupsCheck(p) ==
    /\ zone.g[p].pc \in {"idle", "done"}
    /\ zone.g[p].calls < MaxCalls
    /\ LET c == [zone.g[p] EXCEPT !.op = "ListGroups", !.need = zone.committed,
                                  !.calls = @ + 1, !.answer = Nil]
       IN  IF zone.cache # Nil /\ zone.cache[1].fresh
           THEN zone' = [zone EXCEPT !.g[p] =
                           [c EXCEPT !.pc = "done",
                                     !.answer = Some([groups |-> Some(zone.cache[1].groups),
                                                      err |-> NoError])]]
           ELSE zone' = [zone EXCEPT !.g[p] = [c EXCEPT !.pc = "fetch"]]
    /\ UNCHANGED <<watcherVars, clientVars, cliVars, fetch, disc>>

\* GetZoneGroupState: the SOAP call reads the topology, or fails
FetchTopology(p) ==
    /\ zone.g[p].pc = "fetch"
    /\ \/ zone' = [zone EXCEPT !.g[p].pc = "store", !.g[p].fetched = zone.topology]
       \/ zone' = [zone EXCEPT !.g[p].pc = "done",
                               !.g[p].answer = Some([groups |-> Nil, err |-> ErrSoap])]
    /\ UNCHANGED <<watcherVars, clientVars, cliVars, fetch, disc>>

\* the write-locked tail of ListGroups: store the listing and return it
StoreCache(p) ==
    /\ zone.g[p].pc = "store"
    /\ zone' = [zone EXCEPT
                  !.cache = Some([groups |-> zone.g[p].fetched, fresh |-> TRUE]),
                  !.g[p].pc = "done",
                  !.g[p].answer = Some([groups |-> Some(zone.g[p].fetched), err |-> NoError])]
    /\ UNCHANGED <<watcherVars, clientVars, cliVars, fetch, disc>>

\* the SOAP call of AddToGroup or RemoveFromGroup: a success regroups the
\* speakers, a failure returns the error
GroupCommand(p) ==
    /\ zone.g[p].pc \in {"idle", "done"}
    /\ zone.g[p].calls < MaxCalls
    /\ \E op \in {"AddToGroup", "RemoveFromGroup"} :
         LET c == [zone.g[p] EXCEPT !.op = op, !.calls = @ + 1, !.answer = Nil]
         IN  \/ zone' = [zone EXCEPT !.topology = @ + 1,
                                     !.g[p] = [c EXCEPT !.pc = "invalidate",
                                                        !.fetched = zone.topology + 1]]
             \/ zone' = [zone EXCEPT !.g[p] = [c EXCEPT !.pc = "done",
                                                        !.answer = Some([groups |-> Nil,
                                                                         err |-> ErrSoap])]]
    /\ UNCHANGED <<watcherVars, clientVars, cliVars, fetch, disc>>

\* InvalidateGroupCache, after which the command returns nil
Invalidate(p) ==
    /\ zone.g[p].pc = "invalidate"
    /\ zone' = [zone EXCEPT
                  !.cache = Nil,
                  !.committed = IF zone.g[p].fetched > @ THEN zone.g[p].fetched ELSE @,
                  !.g[p].pc = "done",
                  !.g[p].answer = Some([groups |-> Nil, err |-> NoError])]
    /\ UNCHANGED <<watcherVars, clientVars, cliVars, fetch, disc>>

\* zoneGroupCacheTTL passes since the cached listing was fetched
TTLExpires ==
    /\ zone.cache # Nil
    /\ zone.cache[1].fresh
    /\ zone' = [zone EXCEPT !.cache = Some([@[1] EXCEPT !.fresh = FALSE])]
    /\ UNCHANGED <<watcherVars, clientVars, cliVars, fetch, disc>>

ZoneNext ==
    \/ \E p \in Goroutines : ListGroupsCheck(p)
    \/ \E p \in Goroutines : FetchTopology(p)
    \/ \E p \in Goroutines : StoreCache(p)
    \/ \E p \in Goroutines : GroupCommand(p)
    \/ \E p \in Goroutines : Invalidate(p)
    \/ TTLExpires

(***************************************************************************)
(* internal/sonos: Player.GetState and Player.GetQueue.                    *)
(***************************************************************************)
\* the three SOAP reads of GetState
Reads == {"transport", "position", "volume"}

\* the prefix GetState puts before the error of a read
ReadMessage(k) ==
    CASE k = "transport" -> "get transport info"
      [] k = "position" -> "get position info"
      [] OTHER -> "get volume"

\* what a read returns when it succeeds, and the zero value it returns with
\* an error: the transport state, the position in seconds, the volume
ReadValues(k) ==
    CASE k = "transport" -> {"PLAYING", "STOPPED"}
      [] k = "position" -> {5}
      [] OTHER -> {30}
ZeroValue(k) == IF k = "transport" THEN "" ELSE 0

\* core.Queue{}
EmptyQueue == [Tracks |-> <<>>]

IdleFetch ==
    [pc |-> "idle", op |-> "none",
     \* the goroutine of each read: "unborn", "pending" (started by the go
     \* statement), "running" (inside its SOAP call), "done"
     reads |-> [k \in Reads |-> "unborn"],
     \* whether each finished read succeeded
     ok |-> [k \in Reads |-> FALSE],
     \* result.err and the fields of result, the channel ch, what the method
     \* returned
     err |-> Nil, val |-> [k \in Reads |-> ZeroValue(k)], ch |-> Nil, ret |-> Nil,
     \* the URI given to PlayURI, and the calls AddToQueue and PlayURI have
     \* made on the Sonos client, in order, each with whether it succeeded
     uri |-> "", soap |-> <<>>]

\* the PlaybackState GetState composes of the three results
ComposeState(val) ==
    State(Nil, Some(Device("sonos")), val["transport"] = "PLAYING", val["position"],
          val["volume"])

\* a caller enters GetState: the go statements start the three reads
GetStateCall ==
    /\ fetch.pc = "idle"
    /\ fetch' = [fetch EXCEPT !.pc = "waiting", !.op = "GetState",
                              !.reads = [k \in Reads |-> "pending"]]
    /\ UNCHANGED <<watcherVars, clientVars, cliVars, zone, disc>>

\* a read's goroutine is scheduled and issues its SOAP call
ReadStarts(k) ==
    /\ fetch.pc = "waiting"
    /\ fetch.reads[k] = "pending"
    /\ fetch' = [fetch EXCEPT !.reads[k] = "running"]
    /\ UNCHANGED <<watcherVars, clientVars, cliVars, zone, disc>>

\* a read's SOAP call returns; under the mutex the goroutine records the
\* first error and its field, then calls wg.Done
ReadReturns(k) ==
    /\ fetch.pc = "waiting"
    /\ fetch.reads[k] = "running"
    /\ \E ok \in BOOLEAN :
         \E v \in IF ok THEN ReadValues(k) ELSE {ZeroValue(k)} :
            fetch' = [fetch EXCEPT
                        !.reads[k] = "done",
                        !.ok[k] = ok,
                        !.err = IF ~ok /\ @ = Nil
                                THEN Some(Wrap(ReadMessage(k), ErrSoap)) ELSE @,
                        !.val[k] = v]
    /\ UNCHANGED <<watcherVars, clientVars, cliVars, zone, disc>>

\* a join that waits for one read only
JoinFirst ==
    /\ fetch.pc = "waiting"
    /\ fetch.ch = Nil
    /\ \E k \in Reads : fetch.reads[k] = "done"
    /\ fetch' = [fetch EXCEPT !.pc = "joined", !.ch = Some([err |-> fetch.err, val |-> fetch.val])]
    /\ UNCHANGED <<watcherVars, clientVars, cliVars, zone, disc>>

\* wg.Wait() returns once all three reads have called wg.Done; ch <- r
Join ==
    /\ fetch.pc = "waiting"
    /\ fetch.ch = Nil
    /\ \A k \in Reads : fetch.reads[k] = "done"
    /\ fetch' = [fetch EXCEPT !.pc = "joined", !.ch = Some([err |-> fetch.err, val |-> fetch.val])]
    /\ UNCHANGED <<watcherVars, clientVars, cliVars, zone, disc>>

\* r := <-ch and the rest of GetState: the error, or the composed state
GetStateReturn ==
    /\ fetch.pc = "joined"
    /\ fetch.ch # Nil
    /\ LET r == fetch.ch[1]
       IN  fetch' = [fetch EXCEPT
                       !.pc = "returned", !.ch = Nil,
                       !.ret = IF r.err # Nil
                               THEN Some([value |-> Nil, err |-> r.err[1]])
                               ELSE Some([value |-> Some(ComposeState(r.val)),
                                          err |-> NoError])]
    /\ UNCHANGED <<watcherVars, clientVars, cliVars, zone, disc>>

\* Player.GetQueue
GetQueue ==
    /\ fetch.pc = "idle"
    /\ fetch' = [fetch EXCEPT !.pc = "returned", !.op = "GetQueue",
                              !.ret = Some([value |-> Some(EmptyQueue), err |-> NoError])]
    /\ UNCHANGED <<watcherVars, clientVars, cliVars, zone, disc>>

\* Player.AddToQueue: one call of Client.AddURIToQueue, whose error it returns
AddToQueue ==
    /\ fetch.pc = "idle"
    /\ \E ok \in BOOLEAN :
         fetch' = [fetch EXCEPT
                     !.pc = "returned", !.op = "AddToQueue",
                     !.soap = << [call |-> "AddURIToQueue", ok |-> ok] >>,
                     !.ret = Some([value |-> Nil,
                                   err |-> IF ok THEN NoError ELSE ErrSoap])]
    /\ UNCHANGED <<watcherVars, clientVars, cliVars, zone, disc>>

\* the URIs given to PlayURI, by the prefix PlayURI tests: spotify:track:,
\* three containers, another spotify: URI, and a URI of another scheme
PlayURIs ==
    {"spotify:track:", "spotify:album:", "spotify:playlist:", "spotify:artist:",
     "spotify:", "http:"}

\* Client.PlayURI: SetAVTransportURI, then Play unless that failed
ClientPlayURI(setOK, playOK) ==
    IF setOK
    THEN [soap |-> << [call |-> "SetAVTransportURI", ok |-> TRUE],
                      [call |-> "Play", ok |-> playOK] >>,
          err |-> IF playOK THEN NoError ELSE ErrSoap]
    ELSE [soap |-> << [call |-> "SetAVTransportURI", ok |-> FALSE] >>,
          err |-> Wrap("set transport URI", ErrSoap)]

\* Player.PlayURI: a track and a URI of another scheme go to Client.PlayURI;
\* any other spotify: URI clears the queue, ignoring the error, enqueues the
\* URI and plays from the queue
PlayURI ==
    /\ fetch.pc = "idle"
    /\ \E uri \in PlayURIs, ok1 \in BOOLEAN, ok2 \in BOOLEAN, ok3 \in BOOLEAN :
         LET direct == ClientPlayURI(ok1, ok2)
             clear == [call |-> "ClearQueue", ok |-> ok1]
             add == [call |-> "AddURIToQueue", ok |-> ok2]
             play == [call |-> "PlayFromQueue", ok |-> ok3]
         IN  fetch' = [fetch EXCEPT
                !.pc = "returned", !.op = "PlayURI", !.uri = uri,
                !.soap = IF uri \in {"spotify:track:", "http:"} THEN direct.soap
                         ELSE IF ok2 THEN <<clear, add, play>>
                         ELSE <<clear, add>>,
                !.ret = Some([value |-> Nil,
                              err |-> IF uri \in {"spotify:track:", "http:"} THEN direct.err
                                      ELSE IF ~ok2 THEN Wrap("add to queue", ErrSoap)
                                      ELSE IF ok3 THEN NoError ELSE ErrSoap])]
    /\ UNCHANGED <<watcherVars, clientVars, cliVars, zone, disc>>

SonosPlayerNext ==
    \/ GetStateCall
    \/ \E k \in Reads : ReadStarts(k)
    \/ \E k \in Reads : ReadReturns(k)
    \/ Join
    \/ GetStateReturn
    \/ GetQueue
    \/ AddToQueue
    \/ PlayURI

(***************************************************************************)
(* internal/sonos: discovery and its file cache.                           *)
(***************************************************************************)
\* the UUIDs of the Sonos devices that may answer an M-SEARCH
Uuids == {"u1", "u2"}

\* no cache file, no call of Discover yet
IdleDisc ==
    [pc |-> "idle", calls |-> 0, cancelled |-> FALSE, found |-> <<>>,
     file |-> Nil, network |-> FALSE, ret |-> Nil]

\* the file saveCache leaves: CachedAt is time.Now(), so the entry is within
\* fileCacheTTL; the write may fail, and then the file is as it was.  by
\* records which return of discoverSSDP saved the entry.
saveCache(devices, by, wrote) ==
    IF wrote THEN Some([Devices |-> devices, fresh |-> TRUE, by |-> by])
    ELSE disc.file

\* loadCache: the devices of a cache file that exists and is no older than
\* fileCacheTTL
loadCache ==
    IF disc.file # Nil /\ disc.file[1].fresh
    THEN [devices |-> disc.file[1].Devices, ok |-> TRUE]
    ELSE [devices |-> <<>>, ok |-> FALSE]

\* Discover up to the receive loop of discoverSSDP: a fresh cache file is
\* returned as it is; otherwise the socket is opened and the M-SEARCH sent,
\* and a failure of either returns the error
Discover ==
    /\ disc.pc \in {"idle", "returned"}
    /\ disc.calls < MaxCalls
    /\ \E sent \in BOOLEAN :
         disc' = IF loadCache.ok
                 THEN [disc EXCEPT !.pc = "returned", !.calls = @ + 1,
                                   !.cancelled = FALSE, !.found = <<>>,
                                   !.network = FALSE,
                                   !.ret = Some([devices |-> loadCache.devices,
                                                 err |-> "nil"])]
                 ELSE IF sent
                 THEN [disc EXCEPT !.pc = "select", !.calls = @ + 1,
                                   !.cancelled = FALSE, !.found = <<>>,
                                   !.network = TRUE, !.ret = Nil]
                 ELSE [disc EXCEPT !.pc = "returned", !.calls = @ + 1,
                                   !.cancelled = FALSE, !.found = <<>>,
                                   !.network = TRUE,
                                   !.ret = Some([devices |-> <<>>,
                                                 err |-> "send m-search"])]
    /\ UNCHANGED <<watcherVars, clientVars, cliVars, zone, fetch>>

\* case <-ctx.Done(): d.saveCache(devices); return devices, ctx.Err()
SelectCtxDoneSaves ==
    /\ disc.pc = "select"
    /\ disc.cancelled
    /\ \E wrote \in BOOLEAN :
         disc' = [disc EXCEPT !.pc = "returned",
                              !.file = saveCache(disc.found, "cancelled", wrote),
                              !.ret = Some([devices |-> disc.found,
                                            err |-> "ctx.Err"])]
    /\ UNCHANGED <<watcherVars, clientVars, cliVars, zone, fetch>>

\* default: the loop goes on to conn.ReadFromUDP
SelectDefault ==
    /\ disc.pc = "select"
    /\ ~disc.cancelled
    /\ disc' = [disc EXCEPT !.pc = "read"]
    /\ UNCHANGED <<watcherVars, clientVars, cliVars, zone, fetch>>

\* ReadFromUDP returns the reply of device u: it is appended unless seen
ReadReply(u) ==
    /\ disc.pc = "read"
    /\ disc' = [disc EXCEPT
                  !.pc = "select",
                  !.found = IF \E i \in 1..Len(disc.found) : disc.found[i] = u
                            THEN @ ELSE Append(@, u)]
    /\ UNCHANGED <<watcherVars, clientVars, cliVars, zone, fetch>>

\* ReadFromUDP runs into the read deadline: break, d.saveCache(devices),
\* return devices, nil
ReadTimeout ==
    /\ disc.pc = "read"
    /\ \E wrote \in BOOLEAN :
         disc' = [disc EXCEPT
                    !.pc = "returned",
                    !.file = saveCache(disc.found,
                                       IF disc.found = <<>> THEN "empty"
                                       ELSE "complete", wrote),
                    !.ret = Some([devices |-> disc.found, err |-> "nil"])]
    /\ UNCHANGED <<watcherVars, clientVars, cliVars, zone, fetch>>

\* the caller cancels the context it gave to Discover
CancelDiscover ==
    /\ disc.pc \in {"select", "read"}
    /\ ~disc.cancelled
    /\ disc' = [disc EXCEPT !.cancelled = TRUE]
    /\ UNCHANGED <<watcherVars, clientVars, cliVars, zone, fetch>>

\* fileCacheTTL passes since the cache file was written
FileCacheExpires ==
    /\ disc.pc \in {"idle", "returned"}
    /\ disc.file # Nil
    /\ disc.file[1].fresh
    /\ disc' = [disc EXCEPT !.file = Some([disc.file[1] EXCEPT !.fresh = FALSE])]
    /\ UNCHANGED <<watcherVars, clientVars, cliVars, zone, fetch>>

DiscoveryNext ==
    \/ Discover
    \/ SelectCtxDoneSaves
    \/ SelectDefault
    \/ \E u \in Uuids : ReadReply(u)
    \/ ReadTimeout
    \/ CancelDiscover
    \/ FileCacheExpires

\* the values the components of internal/cli and internal/sonos hold in the
\* runs that do not use them
CliIdle == cli = IdleCli /\ lookup = IdleLookup
SonosIdle == zone = IdleZone /\ fetch = IdleFetch /\ disc = IdleDisc

(***************************************************************************)
(* Specifications.                                                         *)
(***************************************************************************)
WatcherInit(states, used) ==
    /\ player = states
    /\ wpc = "start"
    /\ prev = Nil
    /\ events = <<>>
    /\ eventsClosed = 0
    /\ done = FALSE
    /\ ctxCancelled = FALSE
    /\ panicked = FALSE
    /\ startRet = "none"
    /\ ticks = used

WatcherNext ==
    \/ StartInitial
    \/ SelectCtxDone
    \/ SelectDone
    \/ Tick
    \/ Stop
    \/ Cancel
    \/ Receive

\* the polling loop over a few snapshots, long enough to fill the queue
Init == WatcherInit(LoopStates, 0) /\ ClientInit({}, {}, {Nil}) /\ CliIdle /\ SonosIdle
Next == WatcherNext
Spec == Init /\ [][Next]_vars

\* one diff over every pair of snapshots: the initial fetch and one tick
InitDiff ==
    /\ WatcherInit(DiffStates, MaxTicks - 1) /\ ClientInit({}, {}, {Nil})
    /\ CliIdle /\ SonosIdle
SpecDiff == InitDiff /\ [][Next]_vars

\* one diff over every pair of snapshots that differ in device, playing,
\* volume or track
InitRules ==
    /\ WatcherInit(RuleStates, MaxTicks - 1) /\ ClientInit({}, {}, {Nil})
    /\ CliIdle /\ SonosIdle
SpecRules == InitRules /\ [][Next]_vars

\* one request against a server that may give any answer
InitRetry ==
    /\ WatcherInit({}, 0) /\ ClientInit(AllAnswers, {1}, StartTokens)
    /\ CliIdle /\ SonosIdle
NextRequest == RequestNext
SpecRetry == InitRetry /\ [][NextRequest]_vars

\* two concurrent requests
InitToken ==
    /\ WatcherInit({}, 0) /\ ClientInit(FewAnswers, Callers, StartTokens)
    /\ CliIdle /\ SonosIdle
SpecToken == InitToken /\ [][NextRequest]_vars

\* IsAuthenticated over expiry times around the buffer
InitExpiry ==
    /\ WatcherInit({}, 0)
    /\ ClientInit({}, {},
         { Some(Token(0, "r1", e)) :
             e \in (ExpiryBuffer - ExpirySpread) .. (ExpiryBuffer + ExpirySpread) })
    /\ CliIdle /\ SonosIdle
NextExpiry == AdvanceClock \/ IsAuthenticated
SpecExpiry == InitExpiry /\ [][NextExpiry]_vars
\* the polling loop under the scheduling Go gives it: the goroutine running
\* Start is scheduled, and a select with a ready ctx.Done() or done case
\* takes it after finitely many ticks (the ticker is ready at most once per
\* interval).  The consumer and the callers of Stop and cancel are not
\* obliged to do anything.
WatcherFairness ==
    /\ WF_vars(StartInitial)
    /\ WF_vars(SelectCtxDone)
    /\ WF_vars(SelectDone)
SpecLive == Init /\ [][Next]_vars /\ WatcherFairness

\* one call of resolveDevice over every small device list
InitResolve ==
    /\ WatcherInit({}, 0) /\ ClientInit({}, {}, {Nil})
    /\ cli = IdleCli /\ LookupInit /\ SonosIdle
NextResolve == Resolve
SpecResolve == InitResolve /\ [][NextResolve]_vars

\* one invocation of a playback command
InitCli ==
    /\ WatcherInit({}, 0) /\ ClientInit({}, {}, {Nil})
    /\ CliInit /\ lookup = IdleLookup /\ SonosIdle
NextCli == CliNext
SpecCli == InitCli /\ [][NextCli]_vars

\* two goroutines that list and change the zone groups through one client
InitSonos ==
    /\ WatcherInit({}, 0) /\ ClientInit({}, {}, {Nil})
    /\ CliIdle /\ SonosIdle
NextZone == ZoneNext
SpecZone == InitSonos /\ [][NextZone]_vars

\* one call of the Sonos player's GetState or GetQueue
NextSonosPlayer == SonosPlayerNext
SpecSonosPlayer == InitSonos /\ [][NextSonosPlayer]_vars

\* calls of Discover, one after the other, on one cache directory
NextDiscovery == DiscoveryNext
SpecDiscovery == InitSonos /\ [][NextDiscovery]_vars


(***************************************************************************)
(* Properties of the watcher.                                              *)
(***************************************************************************)
\* a step in which the loop's ticker case polled successfully; prev' is then
\* the polled snapshot
TickPolled == wpc = "select" /\ ticks' = ticks + 1 /\ prev' # Nil /\ wpc' # "blocked"

\* C1 as stated: whenever the watcher observes a state with a track while it
\* holds no previous snapshot, exactly one TrackChange event is emitted for
\* that observation and nothing else.
C1_FirstObservationEmits ==
    [][prev = Nil /\ prev' # Nil /\ HasTrack(prev')
         => events' = Append(events, Event("TrackChange", Nil, prev'))]_vars

\* C1 amended: the initial fetch of Start records its snapshot and emits
\* nothing; when a tick's poll finds a track while the watcher holds no
\* previous snapshot, exactly one TrackChange event is emitted for it and
\* nothing else.
C1_FirstTickEmitsTrackChange ==
    [][/\ wpc = "start" => events' = events
       /\ TickPolled /\ prev = Nil /\ HasTrack(prev')
            => events' = Append(events, Event("TrackChange", Nil, prev'))]_vars

C1_Witness ==
    /\ ticks = MaxTicks
    /\ Len(events) = 1
    /\ events[1] = Event("TrackChange", Nil, prev)

\* the two snapshots have tracks that differ in URI and agree in everything
\* else
DiffersOnlyInURI(p, c) ==
    /\ p.Track # Nil /\ c.Track # Nil
    /\ p.Track[1].URI # c.Track[1].URI
    /\ p.Track[1].Duration = c.Track[1].Duration
    /\ p.Device = c.Device
    /\ p.IsPlaying = c.IsPlaying
    /\ p.Progress = c.Progress
    /\ p.Volume = c.Volume

\* C2 as stated: for consecutive snapshots that differ only in track URI the
\* watcher emits exactly one event, TrackComplete when the previous progress
\* is at least 0.95 x the previous duration and TrackSkip otherwise.
C2_CompleteIffThreshold ==
    [][TickPolled /\ prev # Nil /\ DiffersOnlyInURI(prev[1], prev'[1])
         => events' = Append(events,
               Event(IF 20 * prev[1].Progress >= 19 * prev[1].Track[1].Duration
                     THEN "TrackComplete" ELSE "TrackSkip", prev, prev'))]_vars

\* C2 amended: for consecutive snapshots that differ only in track URI the
\* watcher emits exactly one event, TrackComplete when the previous track's
\* duration is not zero and the previous progress is at least 0.95 x that
\* duration, and TrackSkip otherwise (so always TrackSkip for duration zero).
C2_CompleteIffThresholdAndDuration ==
    [][TickPolled /\ prev # Nil /\ DiffersOnlyInURI(prev[1], prev'[1])
         => events' = Append(events,
               Event(IF /\ prev[1].Track[1].Duration # 0
                        /\ 20 * prev[1].Progress >= 19 * prev[1].Track[1].Duration
                     THEN "TrackComplete" ELSE "TrackSkip", prev, prev'))]_vars

C2_Witness ==
    /\ Len(events) = 1
    /\ events[1].Type = "TrackComplete"
    /\ events[1].Current = prev
    /\ events[1].Previous # Nil
    /\ DiffersOnlyInURI(events[1].Previous[1], prev[1])
    /\ 20 * events[1].Previous[1].Progress = 19 * events[1].Previous[1].Track[1].Duration

C4_ClosedOnceOnExit ==
    /\ eventsClosed \in {0, 1}
    /\ eventsClosed = 1 <=> wpc = "exited"
    /\ wpc = "exited" => ctxCancelled \/ done

C4_Witness ==
    /\ wpc = "exited"
    /\ eventsClosed = 1
    /\ done /\ ~ctxCancelled
    /\ startRet = "nil"

\* the queue after sending evs to q when a full queue gives up its oldest
\* event for each new one
RECURSIVE PushDroppingOldest(_, _)
PushDroppingOldest(q, evs) ==
    IF evs = <<>> THEN q
    ELSE PushDroppingOldest(
           IF Len(q) < EventsCap THEN Append(q, Head(evs))
                                 ELSE Append(Tail(q), Head(evs)),
           Tail(evs))

\* the first n elements of a sequence
Take(seq, n) == SubSeq(seq, 1, IF n < Len(seq) THEN n ELSE Len(seq))

\* C5 as stated: an event produced while the queue is full displaces the
\* oldest pending event.
C5_FullQueueDropsOldest ==
    [][TickPolled /\ Len(events) + Len(diffStates(prev, prev')) > EventsCap
         => events' = PushDroppingOldest(events, diffStates(prev, prev'))]_vars

\* C5 amended: an event produced while the queue (capacity 16) is full is
\* itself dropped and the pending events are kept: the events of a poll are
\* enqueued in order while there is room and the rest are discarded.
C5_FullQueueDropsNewest ==
    [][TickPolled /\ Len(events) + Len(diffStates(prev, prev')) > EventsCap
         => /\ events' = events \o Take(diffStates(prev, prev'),
                                        EventsCap - Len(events))
            /\ Len(events) = EventsCap => events' = events]_vars

C5_Witness ==
    /\ Len(events) = EventsCap
    /\ events[EventsCap].Current # prev

\* C6: no tick leaves the loop waiting on the output queue, and without any
\* help from the consumer the loop exits once it is cancelled or stopped.
C6_LoopNeverBlocks ==
    /\ [](wpc # "blocked")
    /\ ((ctxCancelled \/ done) ~> (wpc = "exited" \/ panicked))

C6_Witness ==
    /\ wpc = "exited"
    /\ Len(events) = EventsCap
    /\ events[EventsCap].Current # prev
(***************************************************************************)
(* Properties of the Spotify client.                                       *)
(***************************************************************************)
\* C7: a request that has returned, whose every attempt was answered 503 and
\* that was not aborted by its context during a wait, made exactly 4 HTTP
\* attempts and returned the retries-exhausted error wrapping the error made
\* of the last answer.
C7_RetryExhaustion ==
    \A c \in Callers :
        /\ req[c].pc = "done"
        /\ req[c].sent > 0
        /\ req[c].only503
        /\ req[c].result # Some(ErrCtx)
        => /\ req[c].sent = 4
           /\ req[c].result = Some(ErrRetries(StatusError(req[c].lastAnswer[1])))

C7_Witness ==
    \E c \in Callers :
        /\ req[c].pc = "done"
        /\ req[c].only503
        /\ req[c].sent = 4
        /\ ~req[c].cancelled
        /\ req[c].result = Some(ErrRetries(ErrStatus(503)))

\* at most one goroutine is inside the refresh exchange, and it holds the lock
OneRefreshAtATime ==
    /\ Cardinality({c \in Callers : req[c].pc = "exchange"}) <= 1
    /\ \A c \in Callers : req[c].pc = "exchange" => mu = c

\* the token cached when the call of c began was inside the expiry buffer
FoundExpired(c) ==
    /\ req[c].callTok # Nil
    /\ req[c].callTime > req[c].callTok[1].ExpiresAt - 60

\* C8 as stated: only one refresh exchange runs at a time, and a caller that
\* found the token expired while another caller's refresh was running never
\* performs an exchange of its own.
C8_OneRefreshForAll ==
    /\ OneRefreshAtATime
    /\ \A c \in Callers :
         FoundExpired(c) /\ req[c].waitedFor # "none" => ~req[c].exchanged

\* C8 amended: only one refresh exchange runs at a time; a caller that waited
\* for a refresh which installed a new token (one not itself inside the
\* expiry buffer) performs no exchange of its own and uses the installed
\* token, while after a refresh whose exchange failed the next caller runs
\* its own exchange.
C8_OneRefreshAtATimeInstalledIsShared ==
    /\ OneRefreshAtATime
    /\ \A c \in Callers :
         /\ req[c].waitedFor = "installed" /\ now <= token[1].ExpiresAt - 60
              => /\ ~req[c].exchanged
                 /\ req[c].tok # -1 => req[c].tok = token[1].AccessToken /\ req[c].tok >= 1
         /\ req[c].waitedFor = "failed" /\ req[c].pc # "lock" => req[c].exchanged

C8_Witness ==
    \E c \in Callers :
        /\ FoundExpired(c)
        /\ req[c].waitedFor = "installed"
        /\ ~req[c].exchanged
        /\ req[c].pc = "done"
        /\ req[c].result = Some(NoError)

\* C9: a request never sends the token that was cached when the call began if
\* that token was then past its expiry minus 60 seconds, and a call whose
\* token refresh failed has sent nothing.
C9_NoExpiredTokenSent ==
    \A c \in Callers :
        /\ req[c].sent > 0 /\ FoundExpired(c)
             => req[c].tok # req[c].callTok[1].AccessToken
        /\ req[c].result \in {Some(ErrNoToken), Some(ErrRefresh), Some(ErrSave),
                              Some(ErrNotAuthenticated)}
             => req[c].sent = 0

C9_Witness ==
    \E c \in Callers :
        /\ FoundExpired(c)
        /\ req[c].exchanged
        /\ req[c].sent > 0
        /\ req[c].result = Some(NoError)

\* C10: IsExpired is true exactly when the expiry time is at most now + 60 s;
\* IsAuthenticated, which answers token # nil and not IsExpired, is then false
\* exactly for those expiry times.
C10_ExpiredIffWithinBuffer ==
    authed # Nil /\ token # Nil
        => (~authed[1].value <=> token[1].ExpiresAt <= authed[1].at + 60)

(***************************************************************************)
(* Properties of the playback commands and their fallback.                 *)
(***************************************************************************)
\* C11: an invocation issues its command at most twice and calls
\* TransferPlayback at most once; the command is issued a second time only
\* after a first result of no active device and a transfer that succeeded;
\* a fallback that determined a target calls TransferPlayback, and one whose
\* transfer succeeded re-issues the command before it returns.
C11_FallbackOnce ==
    /\ cli.issues <= 2
    /\ cli.transfers <= 1
    /\ cli.issues = 2 =>
          /\ cli.transferred
          /\ cli.transfers = 1
          /\ IsNoActiveDeviceError(requestResult(cli.first[1]))
    /\ cli.pc = "done" /\ cli.fallback /\ cli.target # <<>> => cli.transfers = 1
    /\ cli.pc = "done" /\ cli.transferred => cli.issues = 2

\* the re-issued command too found no active device, and the invocation ended
C11_Witness ==
    /\ cli.pc = "done"
    /\ cli.issues = 2
    /\ cli.transfers = 1
    /\ cli.second # Nil
    /\ IsNoActiveDeviceError(requestResult(cli.second[1]))

\* the failure of the re-issued command, when there is one
SecondFailed ==
    /\ cli.pc = "done"
    /\ cli.second # Nil
    /\ requestResult(cli.second[1]) # NoError

\* C12: when the command re-issued after the transfer fails, the invocation
\* returns that very error.
C12_SecondFailureUnmodified ==
    SecondFailed => cli.ret = Some(requestResult(cli.second[1]))

\* C12, amended: when the command re-issued after the transfer fails, the
\* invocation returns that error wrapped under the message "failed to play
\* ... on default device".
C12_SecondFailureWrapped ==
    SecondFailed =>
        cli.ret = Some(Wrap(RetryMessage(cli.cmd), requestResult(cli.second[1])))

\* the re-issued command failed with a server error
C12_Witness == SecondFailed /\ cli.second[1].code = 503

\* C13: the device of the fallback's TransferPlayback is the device the
\* caller supplied with --to if there is one, otherwise the configured
\* default, otherwise the picker's choice.
C13_TargetPriority ==
    cli.transferredTo # Nil =>
        cli.transferredTo[1] =
            IF cli.flag # <<>>
            THEN resolveDevice(cli.rest, cli.lan, cli.flag).dev[1].SpotifyID
            ELSE IF cli.defaultDevice # <<>>
            THEN resolveDevice(cli.rest, cli.lan, cli.defaultDevice).dev[1].SpotifyID
            ELSE cli.picked[1]

\* C14: a resume call (riff play without arguments, riff resume) that is
\* answered with HTTP 403 makes the invocation return nil.
C14_Resume403IsSuccess ==
    /\ cli.pc = "done" /\ cli.cmd \in {"play", "resume"}
    /\ \/ cli.issues = 1 /\ cli.first[1].code = 403
       \/ cli.issues = 2 /\ cli.second[1].code = 403
    => cli.ret = Some(NoError)

\* C15: every command whose player call is answered with HTTP 404 runs the
\* fallback.
C15_Any404TriggersFallback ==
    cli.first # Nil /\ cli.first[1].code = 404 => cli.fallback

(***************************************************************************)
(* Properties of device resolution.                                        *)
(***************************************************************************)
\* the three tests of resolution, for a name or identifier q
NameIs(name, q) == ToLower(name) = ToLower(q)
NameHas(name, q) == Contains(ToLower(name), ToLower(q))

\* i is the least index in hits
IsFirst(hits, i) == i \in hits /\ \A j \in hits : j >= i

\* resolveDevice returned the REST device d
ResolvedTo(d) ==
    lookup.result[1] =
        [dev |-> Some(resolvedDevice("spotify", d.ID, Nil, d.Name)), err |-> NoError]

\* C16: resolution against the REST list returns the first device whose ID
\* is the query when there is one, otherwise the first device whose name is
\* the query up to case when there is one, otherwise the first device whose
\* name contains the query up to case when there is one.
C16_RestPrecedence ==
    lookup.pc = "returned" /\ lookup.rest # Nil =>
        LET devices == lookup.rest[1]
            q == lookup.nameOrID
            range == 1..Len(devices)
        IN  /\ \A i \in range :
                 IsFirst({ j \in range : devices[j].ID = q }, i) => ResolvedTo(devices[i])
            /\ \A i \in range :
                 /\ \A j \in range : devices[j].ID # q
                 /\ IsFirst({ j \in range : NameIs(devices[j].Name, q) }, i)
                 => ResolvedTo(devices[i])
            /\ \A i \in range :
                 /\ \A j \in range : devices[j].ID # q /\ ~NameIs(devices[j].Name, q)
                 /\ IsFirst({ j \in range : NameHas(devices[j].Name, q) }, i)
                 => ResolvedTo(devices[i])

\* a device whose ID is the query is returned although a device whose name
\* is the query, and one whose name contains it, stand before it
C16_Witness ==
    /\ lookup.pc = "returned"
    /\ lookup.rest # Nil
    /\ Len(lookup.rest[1]) = 3
    /\ LET devices == lookup.rest[1]
           q == lookup.nameOrID
       IN  /\ NameHas(devices[1].Name, q) /\ ~NameIs(devices[1].Name, q)
           /\ NameIs(devices[2].Name, q)
           /\ devices[1].ID # q /\ devices[2].ID # q /\ devices[3].ID = q
           /\ ResolvedTo(devices[3])

\* the list findSonosDevice searches, and whether it is searched at all
LanList ==
    IF lookup.lan.groups = Nil THEN lookup.lan.discovered[1]
    ELSE Members(lookup.lan.groups[1])
LanSearched ==
    /\ lookup.pc = "returned"
    /\ lookup.rest # Nil
    /\ \A i \in 1..Len(lookup.rest[1]) :
          /\ lookup.rest[1][i].ID # lookup.nameOrID
          /\ ~NameHas(lookup.rest[1][i].Name, lookup.nameOrID)
    /\ lookup.lan.discovered # Nil
    /\ lookup.lan.discovered # Some(<<>>)

\* C17: when no REST device matches, a LAN device whose UUID is the query
\* is returned if there is one anywhere in the list; otherwise a device whose
\* name is the query up to case is returned if there is one anywhere.
C17_LanPrecedence ==
    LanSearched =>
        LET q == lookup.nameOrID
            range == 1..Len(LanList)
            found == lookup.result[1].dev[1].SonosDevice[1]
        IN  /\ (\E i \in range : LanList[i].UUID = q) => found.UUID = q
            /\ /\ \A i \in range : LanList[i].UUID # q
               /\ \E i \in range : NameIs(LanList[i].Name, q)
               => NameIs(found.Name, q)

(***************************************************************************)
(* Properties of the Sonos client and player.                              *)
(***************************************************************************)
\* C18: a ListGroups call that begins after AddToGroup or RemoveFromGroup
\* has returned nil is not answered with a listing that was read before
\* that command regrouped the speakers.
C18_NoStaleListing ==
    \A p \in Goroutines :
        /\ zone.g[p].pc = "done"
        /\ zone.g[p].op = "ListGroups"
        /\ zone.g[p].answer[1].groups # Nil
        => zone.g[p].answer[1].groups[1] >= zone.g[p].need

\* C19: no read of GetState waits for another read; GetState returns only
\* after all three reads have returned; it returns the state composed of
\* their results and no error if all three succeeded, and an error and no
\* state if any of them failed.
C19_GetStateJoinsAll ==
    fetch.op = "GetState" =>
        /\ \A k \in Reads : fetch.reads[k] = "pending" => ENABLED ReadStarts(k)
        /\ fetch.pc = "returned" =>
              /\ \A k \in Reads : fetch.reads[k] = "done"
              /\ (\A k \in Reads : fetch.ok[k]) =>
                    fetch.ret[1] = [value |-> Some(ComposeState(fetch.val)), err |-> NoError]
              /\ (\E k \in Reads : ~fetch.ok[k]) =>
                    /\ fetch.ret[1].value = Nil
                    /\ fetch.ret[1].err # NoError

\* GetState returned after the position read alone had failed
C19_Witness ==
    /\ fetch.op = "GetState"
    /\ fetch.pc = "returned"
    /\ fetch.ok["transport"] /\ ~fetch.ok["position"] /\ fetch.ok["volume"]

\* C20: GetQueue of the Sonos player returns an error of the kind
\* "unsupported operation" and no queue.
C20_GetQueueUnsupported ==
    fetch.op = "GetQueue" /\ fetch.pc = "returned" =>
        /\ fetch.ret[1].err.kind = "unsupported operation"
        /\ fetch.ret[1].value = Nil

\* ---------------------------------------------------------------------------
\* Sonos queue mutation and container playback
\* ---------------------------------------------------------------------------

\* C21: Player.AddToQueue always fails with an unsupported-operation error
C21_AddToQueueUnsupported ==
    (fetch.pc = "returned" /\ fetch.op = "AddToQueue")
        => /\ fetch.ret[1].err # NoError
           /\ fetch.ret[1].err.kind = "unsupported operation"

Containers == {"spotify:album:", "spotify:playlist:", "spotify:artist:"}

\* the names of the calls PlayURI made on the Sonos client, in order
Issued == [i \in 1..Len(fetch.soap) |-> fetch.soap[i].call]

\* C26: playing a Spotify container clears the queue, then enqueues the URI,
\* then plays from the queue, each call issued only after the one before it
\* succeeded, and never sets the transport URI directly
C26_ContainerSteps ==
    (fetch.pc = "returned" /\ fetch.op = "PlayURI" /\ fetch.uri \in Containers)
        => /\ Issued \in {<<"ClearQueue">>,
                          <<"ClearQueue", "AddURIToQueue">>,
                          <<"ClearQueue", "AddURIToQueue", "PlayFromQueue">>}
           /\ \A i \in 2..Len(fetch.soap) : fetch.soap[i - 1].ok
           /\ \A i \in 1..Len(fetch.soap) : fetch.soap[i].call # "SetAVTransportURI"

(***************************************************************************)
(* Properties of the Spotify client's classification of responses.         *)
(***************************************************************************)
\* the last answer to request c was a response with a 4xx status
Answered4xx(c) ==
    /\ req[c].lastAnswer # Nil
    /\ req[c].lastAnswer[1].kind = "response"
    /\ req[c].lastAnswer[1].code \in 400..499

\* C22: a 4xx response ends the request at that attempt with an APIError that
\* carries the response's status and message
C22_ClientErrorTerminalTyped ==
    \A c \in Callers :
        Answered4xx(c)
        => /\ req[c].pc = "done"
           /\ req[c].result = Some(APIError(req[c].lastAnswer[1].code,
                                            req[c].lastAnswer[1].message))

\* C23: a request that is answered 429 is retried: it returns only after the
\* retry budget is spent (or after its context was cancelled in a wait), and
\* then with the retries-exhausted error
C23_RateLimitRetried ==
    \A c \in Callers :
        /\ req[c].pc = "done"
        /\ req[c].lastAnswer # Nil
        /\ req[c].lastAnswer[1].code = 429
        => \/ req[c].result = Some(ErrCtx)
           \/ /\ req[c].sent = maxRetries + 1
              /\ req[c].result[1].kind = "request failed after retries"

\* C24: a request whose context is cancelled while it waits before a retry
\* returns the context's error and sends no further attempt
C24_CancelledWaitReturns ==
    \A c \in Callers :
        req[c].cancelledIn = "wait"
        => /\ req[c].sent = req[c].sentBefore
           /\ req[c].pc \in {"wait", "done"}
           /\ req[c].pc = "done" => req[c].result = Some(ErrCtx)

\* a request was cancelled in the wait before its second retry and returned
C24_Witness ==
    \E c \in Callers :
        /\ req[c].cancelledIn = "wait"
        /\ req[c].pc = "done"
        /\ req[c].sentBefore = 2

(***************************************************************************)
(* Properties of the watcher's snapshots.                                  *)
(***************************************************************************)
\* C25: a tick either leaves the previous snapshot and the queue alone (its
\* poll failed, or it found no change), or it makes a snapshot of the player
\* the previous one and every event it queues is a diff of the snapshot that
\* was the previous one before the tick against the one that is after it.  No
\* tick loses a previous snapshot.
C25_StrictPollOrder ==
    [][(wpc = "select" /\ ticks' = ticks + 1)
         => \/ prev' = prev /\ events' = events
            \/ /\ prev' # Nil
               /\ prev'[1] \in player
               /\ Len(events') >= Len(events)
               /\ SubSeq(events', 1, Len(events)) = events
               /\ \A i \in (Len(events) + 1)..Len(events') :
                    /\ events'[i].Previous = prev
                    /\ events'[i].Current = prev']_vars

\* three ticks of which two found a change, the second against the snapshot
\* the first had left: two diffs of four events each
C25_Witness ==
    /\ ticks = 3
    /\ Len(events) = 8
    /\ events[1].Current = events[5].Previous
    /\ events[5].Current = prev
    /\ events[1].Previous # Nil

\* the events a tick has put on the queue
Queued == SubSeq(events', Len(events) + 1, Len(events'))

\* how many of the events evs have the type type
Times(evs, type) == Cardinality({i \in 1..Len(evs) : evs[i].Type = type})

\* C27: in the diff of two snapshots Resume is emitted (once) iff IsPlaying
\* went from false to true, Pause iff it went from true to false, VolumeChange
\* iff the volumes differ, and DeviceChange iff the device IDs differ, a
\* missing device differing from a present one; whatever the other rules and
\* the track rule do
C27_RulesIndependent ==
    [][(TickPolled /\ prev # Nil)
         => LET p == prev[1]
                c == prev'[1]
                Once(type, cond) == Times(Queued, type) = IF cond THEN 1 ELSE 0
            IN /\ Once("Resume", ~p.IsPlaying /\ c.IsPlaying)
               /\ Once("Pause", p.IsPlaying /\ ~c.IsPlaying)
               /\ Once("VolumeChange", p.Volume # c.Volume)
               /\ Once("DeviceChange",
                       \/ (p.Device = Nil) # (c.Device = Nil)
                       \/ /\ p.Device # Nil /\ c.Device # Nil
                          /\ p.Device[1].ID # c.Device[1].ID)]_vars

\* one diff emitted Resume and DeviceChange for a device that appeared, and
\* neither a track event nor VolumeChange
C27_Witness ==
    /\ Len(events) = 2
    /\ events[1].Type = "Resume"
    /\ events[2].Type = "DeviceChange"
    /\ events[1].Previous # Nil
    /\ events[1].Previous[1].Device = Nil
    /\ events[1].Current = prev

\* C28: whatever the order of the calls of Stop, the cancellation of the
\* context and the exit of the loop, no goroutine panics and no channel is
\* closed twice
C28_StopAnyNumberOfTimes == ~panicked /\ eventsClosed <= 1

\* C29: a step in which RefreshToken returns an error (no token, a failed
\* exchange, or a failed save of the new token) leaves Client.token as it was
C29_RefreshAtomicOnFailure ==
    [][\A c \in Callers :
         (req[c].pc \in {"lock", "exchange"} /\ req'[c].pc = "done")
             => token' = token]_vars

(***************************************************************************)
(* Properties of Sonos discovery.                                          *)
(***************************************************************************)
\* C30: a call of Discover is answered from the cache file, without network
\* discovery, only when the file was saved by a run that ran to its timeout
\* and found devices; the file a cancelled run or a run that found nothing
\* has saved is not treated as fresh
C30_NoCacheFromAbortedRun ==
    (disc.pc = "returned" /\ ~disc.network)
        => disc.file[1].by = "complete"

====
